---- MODULE Spec2Model ----
(***************************************************************************)
(* Model of mcp_hydrolix/pagination.py (cursor tokens, query hashing) and  *)
(* of the pagination rewriter exercised by tests/                          *)
(* test_pagination_query_parser.py.                                        *)
(*                                                                         *)
(* Text is a sequence of Unicode code points, bytes are a sequence of      *)
(* numbers in 0..255.  U("...") turns a string literal into text.          *)
(***************************************************************************)
EXTENDS Integers, Sequences, FiniteSets, TLC

VARIABLES
    cursor,     \* the cursor object the server constructed, if any
    mintedFor,  \* the database or query it was constructed for
    token,      \* the token of the request being served
    decoded,    \* what decode made of the token
    verdict,    \* what the last validation raised
    lastHash,   \* the second of two hash_query calls: its query and digest
    prevHash,   \* the first of them
    rewritten   \* the last rewrite: its arguments and its result

vars == <<cursor, mintedFor, token, decoded, verdict, lastHash, prevHash, rewritten>>

(***************************************************************************)
(* Characters                                                              *)
(***************************************************************************)

\* The printable ASCII characters, code points 32..126, in order ("`", code
\* point 96, cannot be written in a string literal and is shown as "?").
AsciiPrintable == " !\"#$%&'()*+,-./0123456789:;<=>?@ABCDEFGHIJKLMNOPQRSTUVWXYZ[\\]^_?abcdefghijklmnopqrstuvwxyz{|}~"

\* The text of a single backtick.
Backtick == <<96>>

\* ord() of a one-character string.
Ord(c) ==
    IF c = "\n" THEN 10
    ELSE IF c = "\t" THEN 9
    ELSE IF c = "\r" THEN 13
    ELSE IF c = "?" THEN 63
    ELSE 31 + (CHOOSE i \in 1..Len(AsciiPrintable) : SubSeq(AsciiPrintable, i, i) = c)

\* The text (code points) of a string literal.
U(s) == [i \in 1..Len(s) |-> Ord(SubSeq(s, i, i))]

\* A printable rendering of ASCII text, for reading traces.
RECURSIVE Show(_)
Show(t) ==
    IF t = <<>> THEN ""
    ELSE (IF t[1] >= 32 /\ t[1] <= 126
          THEN SubSeq(AsciiPrintable, t[1] - 31, t[1] - 31) ELSE "?") \o Show(Tail(t))

IsDigit(c) == c >= 48 /\ c <= 57
IsHexDigit(c) == IsDigit(c) \/ (c >= 97 /\ c <= 102) \/ (c >= 65 /\ c <= 70)
HexVal(c) == IF IsDigit(c) THEN c - 48 ELSE IF c >= 97 THEN c - 87 ELSE c - 55
HexChars == U("0123456789abcdef")

\* Does text s carry the text p at position i (1-based)?
HasAt(s, i, p) == i + Len(p) - 1 <= Len(s) /\ SubSeq(s, i, i + Len(p) - 1) = p

(***************************************************************************)
(* Exceptions: every fallible operator returns [ok, val, err].             *)
(***************************************************************************)
Ok(v) == [ok |-> TRUE, val |-> v, err |-> ""]
Raise(e) == [ok |-> FALSE, val |-> <<>>, err |-> e]

(***************************************************************************)
(* str.encode() / bytes.decode(): UTF-8                                    *)
(***************************************************************************)
IsSurrogate(cp) == cp >= 55296 /\ cp <= 57343

Utf8Char(cp) ==
    IF cp < 128 THEN <<cp>>
    ELSE IF cp < 2048 THEN <<192 + (cp \div 64), 128 + (cp % 64)>>
    ELSE IF cp < 65536 THEN <<224 + (cp \div 4096), 128 + ((cp \div 64) % 64), 128 + (cp % 64)>>
    ELSE <<240 + (cp \div 262144), 128 + ((cp \div 4096) % 64),
           128 + ((cp \div 64) % 64), 128 + (cp % 64)>>

\* The pieces ps[lo..hi] joined, by halves.
RECURSIVE JoinRange(_, _, _)
JoinRange(ps, lo, hi) ==
    IF lo > hi THEN <<>>
    ELSE IF lo = hi THEN ps[lo]
    ELSE JoinRange(ps, lo, (lo + hi) \div 2) \o JoinRange(ps, ((lo + hi) \div 2) + 1, hi)

Join(ps) == JoinRange(ps, 1, Len(ps))

\* str.encode(): lone surrogates cannot be encoded.
str_encode(x) ==
    IF \E n \in DOMAIN x : IsSurrogate(x[n]) THEN Raise("UnicodeEncodeError")
    ELSE Ok(Join([n \in DOMAIN x |-> Utf8Char(x[n])]))

IsCont(b, i) == i <= Len(b) /\ b[i] >= 128 /\ b[i] <= 191

\* One character of bytes.decode(): strict UTF-8 (no overlong forms, no
\* surrogates, at most U+10FFFF).  st = [i, out, done, ok].
Utf8Step(b, st) ==
    LET i == st.i
        c == b[i]
        Next1(cp, n) == [st EXCEPT !.i = i + n, !.out = Append(st.out, cp)]
        Fail == [st EXCEPT !.done = TRUE, !.ok = FALSE]
    IN
    IF st.done THEN st
    ELSE IF i > Len(b) THEN [st EXCEPT !.done = TRUE]
    ELSE IF c < 128 THEN Next1(c, 1)
    ELSE IF c >= 194 /\ c <= 223 /\ IsCont(b, i + 1)
      THEN Next1(((c - 192) * 64) + (b[i + 1] - 128), 2)
    ELSE IF c >= 224 /\ c <= 239 /\ IsCont(b, i + 1) /\ IsCont(b, i + 2)
      THEN LET cp == ((c - 224) * 4096) + ((b[i + 1] - 128) * 64) + (b[i + 2] - 128)
           IN IF cp < 2048 \/ IsSurrogate(cp) THEN Fail ELSE Next1(cp, 3)
    ELSE IF c >= 240 /\ c <= 244 /\ IsCont(b, i + 1) /\ IsCont(b, i + 2) /\ IsCont(b, i + 3)
      THEN LET cp == ((c - 240) * 262144) + ((b[i + 1] - 128) * 4096)
                     + ((b[i + 2] - 128) * 64) + (b[i + 3] - 128)
           IN IF cp < 65536 \/ cp > 1114111 THEN Fail ELSE Next1(cp, 4)
    ELSE Fail

Utf8Step4(b, st) == Utf8Step(b, Utf8Step(b, Utf8Step(b, Utf8Step(b, st))))
Utf8Step16(b, st) == Utf8Step4(b, Utf8Step4(b, Utf8Step4(b, Utf8Step4(b, st))))

RECURSIVE Utf8Run(_, _)
Utf8Run(b, st) == IF st.done THEN st ELSE Utf8Run(b, Utf8Step16(b, st))

bytes_decode(b) ==
    LET st == Utf8Run(b, [i |-> 1, out |-> <<>>, done |-> FALSE, ok |-> TRUE])
    IN IF st.ok THEN Ok(st.out) ELSE Raise("UnicodeDecodeError")

(***************************************************************************)
(* base64.urlsafe_b64encode / base64.urlsafe_b64decode                     *)
(***************************************************************************)
B64Alphabet == U("ABCDEFGHIJKLMNOPQRSTUVWXYZabcdefghijklmnopqrstuvwxyz0123456789+/")
B64Pad == Ord("=")

\* bytes.translate(_urlsafe_encode_translation): '+' -> '-', '/' -> '_'.
UrlsafeEncodeTranslate(b) ==
    [i \in 1..Len(b) |-> IF b[i] = 43 THEN 45 ELSE IF b[i] = 47 THEN 95 ELSE b[i]]

\* bytes.translate(_urlsafe_decode_translation): '-' -> '+', '_' -> '/'.
UrlsafeDecodeTranslate(b) ==
    [i \in 1..Len(b) |-> IF b[i] = 45 THEN 43 ELSE IF b[i] = 95 THEN 47 ELSE b[i]]

\* binascii.b2a_base64(s, newline=False): three bytes become four digits,
\* the last group is padded with '='.  Digit k of the output, from its group.
B64Digit(b, k) ==
    LET g == (k - 1) \div 4
        j == (k - 1) % 4
        n == Len(b) - (3 * g)
        b1 == b[(3 * g) + 1]
        b2 == IF n >= 2 THEN b[(3 * g) + 2] ELSE 0
        b3 == IF n >= 3 THEN b[(3 * g) + 3] ELSE 0
    IN  IF j = 0 THEN B64Alphabet[(b1 \div 4) + 1]
        ELSE IF j = 1 THEN B64Alphabet[((b1 % 4) * 16) + (b2 \div 16) + 1]
        ELSE IF j = 2 THEN (IF n >= 2 THEN B64Alphabet[((b2 % 16) * 4) + (b3 \div 64) + 1]
                            ELSE B64Pad)
        ELSE (IF n >= 3 THEN B64Alphabet[(b3 % 64) + 1] ELSE B64Pad)

b64encode(b) == [k \in 1..(4 * ((Len(b) + 2) \div 3)) |-> B64Digit(b, k)]

urlsafe_b64encode(b) == UrlsafeEncodeTranslate(b64encode(b))

\* binascii's table_a2b_base64: the digit's value, 64 for a byte outside the alphabet.
table_a2b_base64 ==
    [c \in 0..255 |->
        IF \E k \in 1..64 : B64Alphabet[k] = c
        THEN (CHOOSE k \in 1..64 : B64Alphabet[k] = c) - 1
        ELSE 64]

\* One pass of the loop of binascii.a2b_base64(s) with strict_mode off, as
\* b64decode(s) calls it: bytes outside the alphabet are skipped, a pad that
\* completes a quad ends the parse, an incomplete quad at the end is an error.
\* st = [i, quad_pos, leftchar, pads, out, done, ok].
A2bStep(s, st) ==
    LET i == st.i
        d == table_a2b_base64[s[i]]
    IN
    IF st.done THEN st
    ELSE IF i > Len(s) THEN [st EXCEPT !.done = TRUE, !.ok = (st.quad_pos = 0)]
    ELSE IF s[i] = B64Pad THEN
        IF st.quad_pos >= 2 /\ st.quad_pos + st.pads + 1 >= 4 THEN [st EXCEPT !.done = TRUE]
        ELSE [st EXCEPT !.i = i + 1, !.pads = IF st.quad_pos >= 2 THEN @ + 1 ELSE @]
    ELSE IF d >= 64 THEN [st EXCEPT !.i = i + 1]
    ELSE IF st.quad_pos = 0 THEN
        [st EXCEPT !.i = i + 1, !.pads = 0, !.quad_pos = 1, !.leftchar = d]
    ELSE IF st.quad_pos = 1 THEN
        [st EXCEPT !.i = i + 1, !.pads = 0, !.quad_pos = 2, !.leftchar = d % 16,
                   !.out = Append(@, (st.leftchar * 4) + (d \div 16))]
    ELSE IF st.quad_pos = 2 THEN
        [st EXCEPT !.i = i + 1, !.pads = 0, !.quad_pos = 3, !.leftchar = d % 4,
                   !.out = Append(@, (st.leftchar * 16) + (d \div 4))]
    ELSE [st EXCEPT !.i = i + 1, !.pads = 0, !.quad_pos = 0, !.leftchar = 0,
                    !.out = Append(@, (st.leftchar * 64) + d)]

A2bStep4(s, st) == A2bStep(s, A2bStep(s, A2bStep(s, A2bStep(s, st))))
A2bStep16(s, st) == A2bStep4(s, A2bStep4(s, A2bStep4(s, A2bStep4(s, st))))

RECURSIVE A2bRun(_, _)
A2bRun(s, st) == IF st.done THEN st ELSE A2bRun(s, A2bStep16(s, st))

a2b_base64(s) ==
    LET st == A2bRun(s, [i |-> 1, quad_pos |-> 0, leftchar |-> 0, pads |-> 0,
                         out |-> <<>>, done |-> FALSE, ok |-> TRUE])
    IN IF st.ok THEN Ok(st.out) ELSE Raise("binascii.Error")

urlsafe_b64decode(s) == a2b_base64(UrlsafeDecodeTranslate(s))

(***************************************************************************)
(* Python values as json sees them.  One record shape for every type:      *)
(* t the type, i the number (int, bool), s the text (str; float keeps its  *)
(* source text), xs the members (list: values, dict: <<key, value>>).      *)
(***************************************************************************)
PyInt(n) == [t |-> "int", i |-> n, s |-> <<>>, xs |-> <<>>]
PyStr(x) == [t |-> "str", i |-> 0, s |-> x, xs |-> <<>>]
PyNone == [t |-> "NoneType", i |-> 0, s |-> <<>>, xs |-> <<>>]
PyBool(b) == [t |-> "bool", i |-> IF b THEN 1 ELSE 0, s |-> <<>>, xs |-> <<>>]
PyFloat(x) == [t |-> "float", i |-> 0, s |-> x, xs |-> <<>>]
PyList(vs) == [t |-> "list", i |-> 0, s |-> <<>>, xs |-> vs]
PyDict(kvs) == [t |-> "dict", i |-> 0, s |-> <<>>, xs |-> kvs]

\* dict[k] = v: a key already present keeps its place and takes the new value.
DictSet(kvs, k, v) ==
    IF \E n \in DOMAIN kvs : kvs[n][1] = k
    THEN [n \in DOMAIN kvs |-> IF kvs[n][1] = k THEN <<k, v>> ELSE kvs[n]]
    ELSE Append(kvs, <<k, v>>)

DictKeys(kvs) == {kvs[n][1] : n \in DOMAIN kvs}
DictGet(kvs, k) == kvs[CHOOSE n \in DOMAIN kvs : kvs[n][1] = k][2]

(***************************************************************************)
(* json.dumps(obj, sort_keys=True)                                         *)
(***************************************************************************)
RECURSIVE NatToText(_)
NatToText(n) == IF n < 10 THEN <<48 + n>> ELSE Append(NatToText(n \div 10), 48 + (n % 10))

\* int.__repr__
IntToText(n) == IF n < 0 THEN <<45>> \o NatToText(0 - n) ELSE NatToText(n)

Hex4(n) == <<HexChars[(n \div 4096) + 1], HexChars[((n \div 256) % 16) + 1],
             HexChars[((n \div 16) % 16) + 1], HexChars[(n % 16) + 1]>>

\* json.encoder.encode_basestring_ascii, one character (ensure_ascii=True).
EscapeChar(c) ==
    IF c = 34 THEN U("\\\"")
    ELSE IF c = 92 THEN U("\\\\")
    ELSE IF c = 10 THEN U("\\n")
    ELSE IF c = 13 THEN U("\\r")
    ELSE IF c = 9 THEN U("\\t")
    ELSE IF c = 8 THEN U("\\b")
    ELSE IF c = 12 THEN U("\\f")
    ELSE IF c >= 32 /\ c <= 126 THEN <<c>>
    ELSE IF c < 65536 THEN U("\\u") \o Hex4(c)
    ELSE U("\\u") \o Hex4(55296 + ((c - 65536) \div 1024))
         \o U("\\u") \o Hex4(56320 + ((c - 65536) % 1024))

encode_basestring_ascii(x) ==
    <<34>> \o Join([n \in DOMAIN x |-> EscapeChar(x[n])]) \o <<34>>

\* Text comparison, as sorted() orders str keys: by code point, a prefix first.
RECURSIVE TextLess(_, _)
TextLess(a, b) ==
    IF b = <<>> THEN FALSE
    ELSE IF a = <<>> THEN TRUE
    ELSE IF a[1] # b[1] THEN a[1] < b[1]
    ELSE TextLess(Tail(a), Tail(b))

RECURSIVE InsertSorted(_, _)
InsertSorted(kvs, kv) ==
    IF kvs = <<>> THEN <<kv>>
    ELSE IF TextLess(kv[1], kvs[1][1]) THEN <<kv>> \o kvs
    ELSE <<kvs[1]>> \o InsertSorted(Tail(kvs), kv)

RECURSIVE SortItems(_)
SortItems(kvs) ==
    IF kvs = <<>> THEN <<>> ELSE InsertSorted(SortItems(SubSeq(kvs, 1, Len(kvs) - 1)), kvs[Len(kvs)])

\* The separators json.dumps uses when none are given: ', ' and ': '.
item_separator == U(", ")
key_separator == U(": ")

RECURSIVE json_dumps(_)
RECURSIVE DumpMembers(_, _, _, _)
\* The members of a list (isDict false) or of a dict (keys already sorted).
DumpMembers(xs, n, isDict, out) ==
    IF n > Len(xs) THEN out
    ELSE DumpMembers(xs, n + 1, isDict,
            out \o (IF n > 1 THEN item_separator ELSE <<>>)
                \o (IF isDict
                    THEN encode_basestring_ascii(xs[n][1]) \o key_separator \o json_dumps(xs[n][2])
                    ELSE json_dumps(xs[n])))

json_dumps(v) ==
    IF v.t = "int" THEN IntToText(v.i)
    ELSE IF v.t = "str" THEN encode_basestring_ascii(v.s)
    ELSE IF v.t = "NoneType" THEN U("null")
    ELSE IF v.t = "bool" THEN (IF v.i = 1 THEN U("true") ELSE U("false"))
    ELSE IF v.t = "float" THEN v.s
    ELSE IF v.t = "list" THEN U("[") \o DumpMembers(v.xs, 1, FALSE, <<>>) \o U("]")
    ELSE U("{") \o DumpMembers(SortItems(v.xs), 1, TRUE, <<>>) \o U("}")

(***************************************************************************)
(* json.loads(s): json.decoder / json.scanner.  Positions are 1-based; a   *)
(* parse step returns [ok, val, pos] with pos the first unread position.   *)
(***************************************************************************)
Parsed(v, p) == [ok |-> TRUE, val |-> v, pos |-> p]
JSONDecodeError == [ok |-> FALSE, val |-> PyNone, pos |-> 0]

\* s[i:i+1], with -1 for the empty slice at the end of the text.
At(x, i) == IF i >= 1 /\ i <= Len(x) THEN x[i] ELSE -1

\* WHITESPACE = [ \t\n\r]*
IsJsonWs(c) == c = 32 \/ c = 9 \/ c = 10 \/ c = 13

RECURSIVE SkipWs(_, _)
SkipWs(x, i) == IF IsJsonWs(At(x, i)) THEN SkipWs(x, i + 1) ELSE i

RECURSIVE SkipDigits(_, _)
SkipDigits(x, i) == IF IsDigit(At(x, i)) THEN SkipDigits(x, i + 1) ELSE i

RECURSIVE DigitsValue(_, _, _, _)
DigitsValue(x, i, j, acc) ==
    IF i >= j THEN acc ELSE DigitsValue(x, i + 1, j, (acc * 10) + (x[i] - 48))

Hex4At(x, i) ==
    IF \A k \in 0..3 : IsHexDigit(At(x, i + k))
    THEN (HexVal(x[i]) * 4096) + (HexVal(x[i + 1]) * 256) + (HexVal(x[i + 2]) * 16) + HexVal(x[i + 3])
    ELSE -1

\* BACKSLASH: the one-character escapes.
Unescape(c) ==
    IF c = 34 \/ c = 92 \/ c = 47 THEN c
    ELSE IF c = 98 THEN 8
    ELSE IF c = 102 THEN 12
    ELSE IF c = 110 THEN 10
    ELSE IF c = 114 THEN 13
    ELSE IF c = 116 THEN 9
    ELSE -1

\* One chunk of scanstring(s, end, strict=True): a plain character or an
\* escape.  st = [i, out, done, ok]; i starts after the opening quote and
\* ends after the closing one.
ScanStep(x, st) ==
    LET i == st.i
        c == At(x, i)
        e == At(x, i + 1)
        uni == Hex4At(x, i + 2)
        uni2 == Hex4At(x, i + 8)
        Next1(cp, n) == [st EXCEPT !.i = i + n, !.out = Append(st.out, cp)]
        Fail == [st EXCEPT !.done = TRUE, !.ok = FALSE]
    IN
    IF st.done THEN st
    ELSE IF c = -1 THEN Fail
    ELSE IF c = 34 THEN [st EXCEPT !.i = i + 1, !.done = TRUE]
    ELSE IF c < 32 THEN Fail
    ELSE IF c # 92 THEN Next1(c, 1)
    ELSE IF e = -1 THEN Fail
    ELSE IF e # 117 THEN (IF Unescape(e) = -1 THEN Fail ELSE Next1(Unescape(e), 2))
    ELSE IF uni = -1 THEN Fail
    ELSE IF uni >= 55296 /\ uni <= 56319 /\ At(x, i + 6) = 92 /\ At(x, i + 7) = 117
    THEN (IF uni2 = -1 THEN Fail
          ELSE IF uni2 >= 56320 /\ uni2 <= 57343
          THEN Next1(65536 + ((uni - 55296) * 1024) + (uni2 - 56320), 12)
          ELSE Next1(uni, 6))
    ELSE Next1(uni, 6)

ScanStep4(x, st) == ScanStep(x, ScanStep(x, ScanStep(x, ScanStep(x, st))))
ScanStep16(x, st) == ScanStep4(x, ScanStep4(x, ScanStep4(x, ScanStep4(x, st))))

RECURSIVE ScanRun(_, _)
ScanRun(x, st) == IF st.done THEN st ELSE ScanRun(x, ScanStep16(x, st))

scanstring(x, i) ==
    LET st == ScanRun(x, [i |-> i, out |-> <<>>, done |-> FALSE, ok |-> TRUE])
    IN IF st.ok THEN Parsed(PyStr(st.out), st.i) ELSE JSONDecodeError

\* NUMBER_RE = (-?(?:0|[1-9]\d*))(\.\d+)?([eE][-+]?\d+)? matched at i.
match_number(x, i) ==
    LET d == IF At(x, i) = 45 THEN i + 1 ELSE i
        intEnd == IF At(x, d) = 48 THEN d + 1
                  ELSE IF IsDigit(At(x, d)) THEN SkipDigits(x, d)
                  ELSE d
        fracEnd == IF At(x, intEnd) = 46 /\ IsDigit(At(x, intEnd + 1))
                   THEN SkipDigits(x, intEnd + 1) ELSE intEnd
        expSign == IF At(x, fracEnd + 1) = 43 \/ At(x, fracEnd + 1) = 45
                   THEN fracEnd + 2 ELSE fracEnd + 1
        expEnd == IF (At(x, fracEnd) = 101 \/ At(x, fracEnd) = 69) /\ IsDigit(At(x, expSign))
                  THEN SkipDigits(x, expSign) ELSE fracEnd
    IN  IF intEnd = d THEN JSONDecodeError
        ELSE IF expEnd = intEnd
        THEN Parsed(PyInt(IF d > i THEN 0 - DigitsValue(x, d, intEnd, 0)
                          ELSE DigitsValue(x, d, intEnd, 0)), intEnd)
        ELSE Parsed(PyFloat(SubSeq(x, i, expEnd - 1)), expEnd)

\* The scanner and the two container parsers it calls call each other; they
\* are one recursive operator here, part naming the function entered:
\*   "scan_once"   scanner.py_make_scanner's _scan_once at position i;
\*   "JSONObject"  JSONObject's loop, i the opening quote of the next key,
\*                 acc the pairs read so far;
\*   "JSONArray"   JSONArray's loop, i the position of the next value, acc the
\*                 values read so far.
RECURSIVE json_scan(_, _, _, _)
json_scan(part, x, i, acc) ==
    IF part = "JSONObject" THEN
        \* x[i] is the opening quote, so the scanner reads the key as a string
        LET key == json_scan("scan_once", x, i, <<>>) IN
        IF ~key.ok THEN JSONDecodeError
        ELSE LET colon == IF At(x, key.pos) = 58 THEN key.pos ELSE SkipWs(x, key.pos) IN
        IF At(x, colon) # 58 THEN JSONDecodeError
        ELSE LET value == json_scan("scan_once", x, SkipWs(x, colon + 1), <<>>) IN
        IF ~value.ok THEN JSONDecodeError
        ELSE LET after == SkipWs(x, value.pos)
                 more == DictSet(acc, key.val.s, value.val)
             IN IF At(x, after) = 125 THEN Parsed(PyDict(more), after + 1)
                ELSE IF At(x, after) # 44 THEN JSONDecodeError
                ELSE IF At(x, SkipWs(x, after + 1)) # 34 THEN JSONDecodeError
                ELSE json_scan("JSONObject", x, SkipWs(x, after + 1), more)
    ELSE IF part = "JSONArray" THEN
        LET value == json_scan("scan_once", x, i, <<>>) IN
        IF ~value.ok THEN JSONDecodeError
        ELSE LET after == SkipWs(x, value.pos)
                 more == Append(acc, value.val)
             IN IF At(x, after) = 93 THEN Parsed(PyList(more), after + 1)
                ELSE IF At(x, after) # 44 THEN JSONDecodeError
                ELSE json_scan("JSONArray", x, SkipWs(x, after + 1), more)
    ELSE
        LET c == At(x, i) IN
        IF c = -1 THEN JSONDecodeError
        ELSE IF c = 34 THEN scanstring(x, i + 1)
        ELSE IF c = 123 THEN
            LET j == SkipWs(x, i + 1) IN
            IF At(x, j) = 125 THEN Parsed(PyDict(<<>>), j + 1)
            ELSE IF At(x, j) # 34 THEN JSONDecodeError
            ELSE json_scan("JSONObject", x, j, <<>>)
        ELSE IF c = 91 THEN
            LET j == SkipWs(x, i + 1) IN
            IF At(x, j) = 93 THEN Parsed(PyList(<<>>), j + 1)
            ELSE json_scan("JSONArray", x, j, <<>>)
        ELSE IF HasAt(x, i, U("null")) THEN Parsed(PyNone, i + 4)
        ELSE IF HasAt(x, i, U("true")) THEN Parsed(PyBool(TRUE), i + 4)
        ELSE IF HasAt(x, i, U("false")) THEN Parsed(PyBool(FALSE), i + 5)
        ELSE IF match_number(x, i).ok THEN match_number(x, i)
        ELSE IF HasAt(x, i, U("NaN")) THEN Parsed(PyFloat(U("NaN")), i + 3)
        ELSE IF HasAt(x, i, U("Infinity")) THEN Parsed(PyFloat(U("Infinity")), i + 8)
        ELSE IF HasAt(x, i, U("-Infinity")) THEN Parsed(PyFloat(U("-Infinity")), i + 9)
        ELSE JSONDecodeError

scan_once(x, i) == json_scan("scan_once", x, i, <<>>)

\* JSONDecoder.decode: the value raw_decode read must end the text.
WholeText(x, r) ==
    IF ~r.ok THEN Raise("JSONDecodeError")
    ELSE IF SkipWs(x, r.pos) # Len(x) + 1 THEN Raise("JSONDecodeError")
    ELSE Ok(r.val)

\* json.loads(s) for a str: no BOM, one value, only whitespace around it.
json_loads(x) ==
    IF At(x, 1) = 65279 THEN Raise("JSONDecodeError")
    ELSE WholeText(x, scan_once(x, SkipWs(x, 1)))

(***************************************************************************)
(* hash_query                                                              *)
(***************************************************************************)

\* str.isspace(): the characters str.strip() removes.
IsPySpace(c) ==
    \/ (c >= 9 /\ c <= 13) \/ (c >= 28 /\ c <= 32) \/ c = 133 \/ c = 160
    \/ c = 5760 \/ (c >= 8192 /\ c <= 8202) \/ c = 8232 \/ c = 8233
    \/ c = 8239 \/ c = 8287 \/ c = 12288

\* str.lstrip() and str.rstrip(), as do_strip does them: the first and the
\* last position that holds no whitespace.
lstrip(x) ==
    IF \A n \in DOMAIN x : IsPySpace(x[n]) THEN <<>>
    ELSE SubSeq(x, CHOOSE n \in DOMAIN x :
                     ~IsPySpace(x[n]) /\ \A m \in 1..(n - 1) : IsPySpace(x[m]), Len(x))

rstrip(x) ==
    IF \A n \in DOMAIN x : IsPySpace(x[n]) THEN <<>>
    ELSE SubSeq(x, 1, CHOOSE n \in DOMAIN x :
                        ~IsPySpace(x[n]) /\ \A m \in (n + 1)..Len(x) : IsPySpace(x[m]))

strip(x) == rstrip(lstrip(x))

\* bytes.hex()
HexOfBytes(b) ==
    [k \in 1..(2 * Len(b)) |->
        IF k % 2 = 1 THEN HexChars[(b[(k + 1) \div 2] \div 16) + 1]
        ELSE HexChars[(b[k \div 2] % 16) + 1]]

PadRight(x, n, c) == [k \in 1..(IF Len(x) > n THEN Len(x) ELSE n) |-> IF k <= Len(x) THEN x[k] ELSE c]

\* hashlib.sha256(data).hexdigest(), as an ideal hash: 64 lowercase hex
\* digits, a different digest for every different input (message of at most
\* 31 bytes: its hex digits, zero filled, then its length).
sha256_hexdigest(b) ==
    PadRight(HexOfBytes(b), 62, 48)
        \o <<HexChars[(Len(b) \div 16) + 1], HexChars[(Len(b) % 16) + 1]>>

\* hash_query that hashes the query as given.
hash_query_unstripped(query) == sha256_hexdigest(str_encode(query).val)

\* hash_query(query): the query is UTF-8 encodable text.
hash_query(query) == sha256_hexdigest(str_encode(strip(query)).val)

(***************************************************************************)
(* The cursor classes                                                      *)
(***************************************************************************)
TableListCursor(offset, database) ==
    [cls |-> "TableListCursor", offset |-> offset, database |-> database]

QueryResultCursor(offset, query_hash) ==
    [cls |-> "QueryResultCursor", offset |-> offset, query_hash |-> query_hash]

\* self.__dict__.items(): the fields in declaration order.
CursorDict(self) ==
    IF self.cls = "TableListCursor"
    THEN << <<U("offset"), self.offset>>, <<U("database"), self.database>> >>
    ELSE << <<U("offset"), self.offset>>, <<U("query_hash"), self.query_hash>> >>

\* The items whose value is not None, in order.
RECURSIVE NotNoneItems(_)
NotNoneItems(kvs) ==
    IF kvs = <<>> THEN <<>>
    ELSE (IF kvs[1][2].t # "NoneType" THEN <<kvs[1]>> ELSE <<>>) \o NotNoneItems(Tail(kvs))

\* bool(v) for the values a cursor field takes.
Truthy(v) ==
    IF v.t = "int" \/ v.t = "bool" THEN v.i # 0
    ELSE IF v.t = "str" THEN v.s # <<>>
    ELSE IF v.t = "NoneType" THEN FALSE
    ELSE IF v.t = "float" THEN TRUE
    ELSE v.xs # <<>>

RECURSIVE TruthyItems(_)
TruthyItems(kvs) ==
    IF kvs = <<>> THEN <<>>
    ELSE (IF Truthy(kvs[1][2]) THEN <<kvs[1]>> ELSE <<>>) \o TruthyItems(Tail(kvs))

\* encode that leaves out every falsy field, not only None.
encode_dropping_falsy(self) ==
    urlsafe_b64encode(str_encode(json_dumps(PyDict(TruthyItems(CursorDict(self))))).val)

\* BaseCursorData.encode
encode(self) ==
    urlsafe_b64encode(str_encode(json_dumps(PyDict(NotNoneItems(CursorDict(self))))).val)

\* A raised exception as decode reports it: ValueError, with the exception
\* it was made from.
ValueError(cause) == [ok |-> FALSE, val |-> <<>>, err |-> "ValueError", cause |-> cause]
Returned(v) == [ok |-> TRUE, val |-> v, err |-> "", cause |-> ""]

\* A constructor that ignores the keys it has no field for instead of raising.
Construct_ignoring_unknown(cls, data) ==
    IF data.t # "dict" THEN Raise("TypeError")
    ELSE LET keys == DictKeys(data.xs)
             disc == IF cls = "TableListCursor" THEN U("database") ELSE U("query_hash")
         IN IF U("offset") \notin keys THEN Raise("TypeError")
            ELSE LET d == IF disc \in keys THEN DictGet(data.xs, disc) ELSE PyStr(<<>>)
                     o == DictGet(data.xs, U("offset"))
                 IN Ok(IF cls = "TableListCursor"
                       THEN TableListCursor(o, d) ELSE QueryResultCursor(o, d))

\* cls(**data): the dataclass-generated __init__ of each class.
Construct(cls, data) ==
    IF data.t # "dict" THEN Raise("TypeError")
    ELSE LET keys == DictKeys(data.xs)
             disc == IF cls = "TableListCursor" THEN U("database") ELSE U("query_hash")
         IN IF ~(keys \subseteq {U("offset"), disc}) THEN Raise("TypeError")
            ELSE IF U("offset") \notin keys THEN Raise("TypeError")
            ELSE LET d == IF disc \in keys THEN DictGet(data.xs, disc) ELSE PyStr(<<>>)
                     o == DictGet(data.xs, U("offset"))
                 IN Ok(IF cls = "TableListCursor"
                       THEN TableListCursor(o, d) ELSE QueryResultCursor(o, d))

\* The statements of the try block both decode classmethods share: each one
\* runs on what the one before it returned, unless that one raised.
TryB64decode(r) == IF r.ok THEN urlsafe_b64decode(r.val) ELSE r
TryDecode(r) == IF r.ok THEN bytes_decode(r.val) ELSE r
TryLoads(r) == IF r.ok THEN json_loads(r.val) ELSE r
TryConstruct(cls, r) == IF r.ok THEN Construct(cls, r.val) ELSE r

\* except Exception as e: raise ValueError(...) from e
ExceptAsValueError(r) == IF r.ok THEN Returned(r.val) ELSE ValueError(r.err)

\* The body of decode; cursor.encode() makes the token UTF-8 bytes.
DecodeAs(cls, cur) ==
    ExceptAsValueError(
        TryConstruct(cls, TryLoads(TryDecode(TryB64decode(str_encode(cur))))))

\* TableListCursor.decode
TableListCursor_decode(cur) == DecodeAs("TableListCursor", cur)

\* QueryResultCursor.decode
QueryResultCursor_decode(cur) == DecodeAs("QueryResultCursor", cur)

\* a != b for a field value a and a str b.
PyNeStr(a, b) == a.t # "str" \/ a.s # b

\* validate_params that checks only a cursor that names a database.
validate_params_skipping_empty(self, database) ==
    IF Truthy(self.database) /\ PyNeStr(self.database, database) THEN "ValueError" ELSE "None"

\* TableListCursor.validate_params: what the call raises, "None" for a normal return.
validate_params(self, database) ==
    IF PyNeStr(self.database, database) THEN "ValueError" ELSE "None"

\* validate_query that hashes the query as given.
validate_query_unstripped(self, query) ==
    IF PyNeStr(self.query_hash, hash_query_unstripped(query)) THEN "ValueError" ELSE "None"

\* QueryResultCursor.validate_query
validate_query(self, query) ==
    LET expected_hash == hash_query(query) IN
    IF PyNeStr(self.query_hash, expected_hash) THEN "ValueError" ELSE "None"

(***************************************************************************)
(* PaginationRewriter: rewrite(query, limit, offset), from its description *)
(* (trim, strip one terminator, tokenize, look for a LIMIT or OFFSET       *)
(* keyword, append or wrap).                                               *)
(***************************************************************************)

\* The least member of a non-empty set of positions.
First(S) == CHOOSE j \in S : \A k \in S : j <= k

IsSqlSpace(c) == c \in {32, 9, 10, 11, 12, 13}
IsLetter(c) == (c >= 65 /\ c <= 90) \/ (c >= 97 /\ c <= 122)
IsWordStart(c) == IsLetter(c) \/ c = 95
IsWordChar(c) == IsWordStart(c) \/ IsDigit(c) \/ c = 36
Upper(c) == IF c >= 97 /\ c <= 122 THEN c - 32 ELSE c
UpperText(x) == [n \in DOMAIN x |-> Upper(x[n])]

\* The keyword table of the tokenizer: a word spelt like one of these, in any
\* letter case, is a keyword; any other word is an identifier.
Keywords ==
    {U("SELECT"), U("FROM"), U("WHERE"), U("AS"), U("AND"), U("OR"), U("IN"), U("ON"),
     U("JOIN"), U("ORDER"), U("BY"), U("DESC"), U("ASC"), U("GROUP"), U("HAVING"),
     U("LIMIT"), U("OFFSET")}

PaginationKeywords == {U("LIMIT"), U("OFFSET")}

\* What opens a line comment and a block comment.
LineCommentStart == U("--")
BlockCommentStart == U("/*")

\* A token: its kind and the positions lo..hi of the text it covers.
Token(kind, lo, hi) == [kind |-> kind, lo |-> lo, hi |-> hi]

\* The last position of the run of whitespace (of word characters, of digits)
\* that starts at i.
SpaceEnd(x, i) == First({j \in i..Len(x) : j = Len(x) \/ ~IsSqlSpace(x[j + 1])})
WordEnd(x, i) == First({j \in i..Len(x) : j = Len(x) \/ ~IsWordChar(x[j + 1])})
DigitsEnd(x, i) == First({j \in i..Len(x) : j = Len(x) \/ ~IsDigit(x[j + 1])})

\* The last position of the line comment that starts at i: it runs up to the
\* end of the line, the newline not included.
LineEnd(x, i) == First({j \in i..Len(x) : j = Len(x) \/ x[j + 1] = 10})

\* Where the text opened at i by a quote or bracket can close, and where the
\* block comment opened at i can.
Closings(x, i, close) == {j \in (i + 1)..Len(x) : x[j] = close}
BlockEnds(x, i) == {j \in (i + 3)..Len(x) : x[j - 1] = 42 /\ x[j] = 47}

\* A delimited token ends at the first closing delimiter; with none it is
\* unterminated.
Delimited(kind, i, ends) ==
    IF ends = {} THEN Token("unterminated", i, i) ELSE Token(kind, i, First(ends))

Word(x, i, hi) ==
    Token(IF UpperText(SubSeq(x, i, hi)) \in Keywords THEN "keyword" ELSE "identifier", i, hi)

\* The token that starts at position i of the text.
TokenAt(x, i) ==
    IF IsSqlSpace(x[i]) THEN Token("whitespace", i, SpaceEnd(x, i))
    ELSE IF IsWordStart(x[i]) THEN Word(x, i, WordEnd(x, i))
    ELSE IF IsDigit(x[i]) THEN Token("punctuation", i, DigitsEnd(x, i))
    ELSE IF HasAt(x, i, LineCommentStart) THEN Token("comment", i, LineEnd(x, i))
    ELSE IF HasAt(x, i, BlockCommentStart) THEN Delimited("comment", i, BlockEnds(x, i))
    ELSE IF x[i] = 39 THEN Delimited("string-literal", i, Closings(x, i, 39))
    ELSE IF x[i] = 96 THEN Delimited("quoted-identifier", i, Closings(x, i, 96))
    ELSE IF x[i] = 91 THEN Delimited("quoted-identifier", i, Closings(x, i, 93))
    ELSE Token("punctuation", i, i)

\* The tokenizer takes a token onto its stream, or fails on an unterminated one.
Emit(st, t) ==
    IF t.kind = "unterminated" THEN [st EXCEPT !.done = TRUE, !.ok = FALSE]
    ELSE [st EXCEPT !.i = t.hi + 1, !.toks = Append(@, t)]

\* One token of the tokenizer.  st = [i, toks, done, ok].
LexStep(x, st) ==
    IF st.done THEN st
    ELSE IF st.i > Len(x) THEN [st EXCEPT !.done = TRUE]
    ELSE Emit(st, TokenAt(x, st.i))

LexStep4(x, st) == LexStep(x, LexStep(x, LexStep(x, LexStep(x, st))))
LexStep16(x, st) == LexStep4(x, LexStep4(x, LexStep4(x, LexStep4(x, st))))

RECURSIVE LexRun(_, _)
LexRun(x, st) == IF st.done THEN st ELSE LexRun(x, LexStep16(x, st))

\* The flat token stream of a text; ok is FALSE when it cannot be tokenized.
Tokenize(x) == LexRun(x, [i |-> 1, toks |-> <<>>, done |-> FALSE, ok |-> TRUE])

\* A keyword token of the stream spelt, in any letter case, like one of words.
HasKeyword(x, toks, words) ==
    \E n \in DOMAIN toks :
        toks[n].kind = "keyword" /\ UpperText(SubSeq(x, toks[n].lo, toks[n].hi)) \in words

\* Step 1: trim, then strip a single trailing statement terminator.
StripTerminator(x) ==
    IF x # <<>> /\ x[Len(x)] = 59 THEN SubSeq(x, 1, Len(x) - 1) ELSE x

Normalise(query) == StripTerminator(strip(query))

\* The fixed text of the two output shapes.
LimitText == U(" LIMIT ")
OffsetText == U(" OFFSET ")
SubqueryHead == U("SELECT * FROM (")
SubqueryTail == U(") AS paginated_subquery")

\* LIMIT {limit} OFFSET {offset}, after a space.
PaginationClause(limit, offset) ==
    LimitText \o IntToText(limit) \o OffsetText \o IntToText(offset)

\* Step 4, the direct append, and step 5, the subquery wrap.
AppendClause(q, limit, offset) == q \o PaginationClause(limit, offset)
WrapSubquery(q, limit, offset) ==
    SubqueryHead \o q \o SubqueryTail \o PaginationClause(limit, offset)

\* Steps 3 to 5 on the token stream of the normalised query.
RewriteTokens(q, lexed, wrap, limit, offset) ==
    IF ~lexed.ok THEN Raise("RewriteError")
    ELSE IF wrap THEN Ok(WrapSubquery(q, limit, offset))
    ELSE Ok(AppendClause(q, limit, offset))

\* Any LIMIT or OFFSET keyword of the stream, at whatever depth.
AnyPagination(q, lexed) == HasKeyword(q, lexed.toks, PaginationKeywords)

RewriteNormalised(q, lexed, limit, offset) ==
    RewriteTokens(q, lexed, AnyPagination(q, lexed), limit, offset)

\* p occurs somewhere in x.
Contains(x, p) == \E i \in 1..(Len(x) + 1) : HasAt(x, i, p)

\* How many parentheses are open before token n.
Depth(x, toks, n) ==
    Cardinality({m \in 1..(n - 1) : toks[m].kind = "punctuation" /\ x[toks[m].lo] = 40})
    - Cardinality({m \in 1..(n - 1) : toks[m].kind = "punctuation" /\ x[toks[m].lo] = 41})

TopLevelPagination(q, lexed) ==
    \E n \in DOMAIN lexed.toks :
        /\ HasKeyword(q, <<lexed.toks[n]>>, PaginationKeywords)
        /\ Depth(q, lexed.toks, n) = 0

\* rewrite looking for the keywords outside every parenthesis only.
rewrite_top_level_only(query, limit, offset) ==
    RewriteTokens(Normalise(query), Tokenize(Normalise(query)),
                  TopLevelPagination(Normalise(query), Tokenize(Normalise(query))),
                  limit, offset)

\* rewrite looking for the keywords' spelling in the raw text.
rewrite_by_substring(query, limit, offset) ==
    RewriteTokens(Normalise(query), Tokenize(Normalise(query)),
                  \E w \in PaginationKeywords : Contains(UpperText(Normalise(query)), w),
                  limit, offset)

\* rewrite that trims but leaves the statement terminator.
rewrite_keeping_terminator(query, limit, offset) ==
    RewriteNormalised(strip(query), Tokenize(strip(query)), limit, offset)

\* rewrite(query, limit, offset)
rewrite(query, limit, offset) ==
    RewriteNormalised(Normalise(query), Tokenize(Normalise(query)), limit, offset)

(***************************************************************************)
(* Inputs                                                                  *)
(***************************************************************************)
MaxPage == 2
MaxQueryLen == 3

\* Offsets of the pages a listing of 50 rows a page hands out.
Offsets == {k * 50 : k \in 0..MaxPage}

\* The last name holds e-acute, a quote, a backslash, a newline, a character
\* beyond the basic plane and a lone surrogate.
Databases ==
    {U(""), U("test"), U("prod"), U("d>>?"), <<233, 34, 92, 10, 128512, 55296>>}

\* The queries a client pages through: one query, the same query padded with
\* outer whitespace, the same with other inner spacing, another query, none.
PagedQueries ==
    {U("SELECT * FROM users"), U("  SELECT * FROM users \n"), U("SELECT  *  FROM  users"),
     U("SELECT * FROM admin_users"), U("")}

\* query_hash values given directly: the default and the one of the tests.
GivenHashes == {U(""), U("abc123def456")}

\* The base64 token of a JSON text.
TokenOf(json) == urlsafe_b64encode(str_encode(json).val)

\* JSON texts a client wraps into a token of its own making.
ClientJson ==
    {U("not json data"), U("[1]"), U("5"), U("null"), U("\"x\""), U("{}"),
     U("{\"database\":\"test\",\"offset\":50}"),
     U("{\"offset\":100,\"query_hash\":\"abc123\"}"),
     U("{\"offset\": \"abc\", \"database\": 5}"),
     U("{\"offset\": -1, \"database\": \"test\"}"),
     U("{\"offset\": -1, \"query_hash\": \"abc123\"}"),
     U("{\"offset\": 1}"),
     U("{\"database\": \"test\"}"),
     U("{\"offset\": 1, \"database\": \"test\", \"x\": 2}"),
     U("{\"offset\": 1, \"query_hash\": null}"),
     U("{\"offset\": 1.5, \"database\": [\"test\"]}"),
     U("{\"offset\": 1, \"offset\": 2, \"database\": \"test\"}"),
     U("{\"offset\": 1, \"database\": \"test\"} x"),
     U(" { \"offset\" : 1 , \"database\" : \"\\u0074est\" } ")}

\* Tokens a client sends that no encode() produced.
ClientTokens ==
    {TokenOf(j) : j \in ClientJson}
    \cup {U(""), U("invalid!!!cursor"), U("not-valid-base64!@#$"), U("===="),
          U("_w=="), U("e30"),
          U("!eyJkYXRhYmFzZSI6ICJ0ZXN0IiwgIm9mZnNldCI6IDUwfQ=="),
          U("eyJkYXRhYmFzZSI6ICJ0ZXN0IiwgIm9mZnNldCI6IDUwfQ==junk"),
          U("eyJk YXRhYmFzZSI6ICJ0ZXN0IiwgIm9mZnNldCI6IDUwfQ=="),
          U("eyJkYXRhYmFzZSI6ICJkPj4/IiwgIm9mZnNldCI6IDB9"),
          U("eyJkYXRhYmFzZSI6ICJkPj4_IiwgIm9mZnNldCI6IDB9")}

(***************************************************************************)
(* The life of a cursor: constructed, encoded, sent by the client, decoded,*)
(* validated against the request.                                          *)
(***************************************************************************)
NoCursor == [cls |-> "none"]
NoScope == [kind |-> "none", text |-> <<>>]
NoToken == [held |-> FALSE, text |-> <<>>, from |-> ""]
NotDecoded == [cls |-> "none"]
NoVerdict == [on |-> "none", param |-> <<>>, raised |-> ""]
NoHash == [hashed |-> FALSE, query |-> <<>>, digest |-> <<>>]
NoRewrite == [done |-> FALSE]

Init ==
    /\ cursor = NoCursor
    /\ mintedFor = NoScope
    /\ token = NoToken
    /\ decoded = NotDecoded
    /\ verdict = NoVerdict
    /\ lastHash = NoHash
    /\ prevHash = NoHash
    /\ rewritten = NoRewrite

\* TableListCursor(offset=o, database=d), database None included.
NewTableListCursor(o, d) ==
    /\ cursor' = TableListCursor(PyInt(o), d)
    /\ mintedFor' = [kind |-> "database", text |-> d.s]
    /\ token' = NoToken /\ decoded' = NotDecoded /\ verdict' = NoVerdict
    /\ UNCHANGED <<lastHash, prevHash, rewritten>>

\* QueryResultCursor(offset=o, query_hash=hash_query(q))
NewQueryResultCursor(o, q) ==
    /\ cursor' = QueryResultCursor(PyInt(o), PyStr(hash_query(q)))
    /\ mintedFor' = [kind |-> "query", text |-> q]
    /\ token' = NoToken /\ decoded' = NotDecoded /\ verdict' = NoVerdict
    /\ UNCHANGED <<lastHash, prevHash, rewritten>>

\* QueryResultCursor(offset=o, query_hash=h)
NewQueryResultCursorOfHash(o, h) ==
    /\ cursor' = QueryResultCursor(PyInt(o), PyStr(h))
    /\ mintedFor' = [kind |-> "hash", text |-> h]
    /\ token' = NoToken /\ decoded' = NotDecoded /\ verdict' = NoVerdict
    /\ UNCHANGED <<lastHash, prevHash, rewritten>>

\* cursor.encode()
Encode ==
    /\ cursor.cls # "none"
    /\ token' = [held |-> TRUE, text |-> encode(cursor), from |-> "encode"]
    /\ decoded' = NotDecoded /\ verdict' = NoVerdict
    /\ UNCHANGED <<cursor, mintedFor, lastHash, prevHash, rewritten>>

\* A request arrives with a token of the client's own.
ClientSends(t) ==
    /\ token' = [held |-> TRUE, text |-> t, from |-> "client"]
    /\ cursor' = NoCursor /\ mintedFor' = NoScope
    /\ decoded' = NotDecoded /\ verdict' = NoVerdict
    /\ UNCHANGED <<lastHash, prevHash, rewritten>>

\* TableListCursor.decode(token)
DecodeTableList ==
    /\ token.held
    /\ decoded' = [cls |-> "TableListCursor", result |-> TableListCursor_decode(token.text)]
    /\ verdict' = NoVerdict
    /\ UNCHANGED <<cursor, mintedFor, token, lastHash, prevHash, rewritten>>

\* QueryResultCursor.decode(token)
DecodeQueryResult ==
    /\ token.held
    /\ decoded' = [cls |-> "QueryResultCursor", result |-> QueryResultCursor_decode(token.text)]
    /\ verdict' = NoVerdict
    /\ UNCHANGED <<cursor, mintedFor, token, lastHash, prevHash, rewritten>>

\* The cursor a validation is called on: the constructed one or the decoded one.
Subject(on) == IF on = "cursor" THEN cursor ELSE decoded.result.val
HasSubject(on, cls) ==
    IF on = "cursor" THEN cursor.cls = cls
    ELSE decoded.cls = cls /\ decoded.result.ok

\* cursor.validate_params(d)
ValidateParams(on, d) ==
    /\ HasSubject(on, "TableListCursor")
    /\ verdict' = [on |-> on, param |-> d, raised |-> validate_params(Subject(on), d)]
    /\ UNCHANGED <<cursor, mintedFor, token, decoded, lastHash, prevHash, rewritten>>

\* cursor.validate_query(q)
ValidateQuery(on, q) ==
    /\ HasSubject(on, "QueryResultCursor")
    /\ verdict' = [on |-> on, param |-> q, raised |-> validate_query(Subject(on), q)]
    /\ UNCHANGED <<cursor, mintedFor, token, decoded, lastHash, prevHash, rewritten>>

Next ==
    \/ \E o \in Offsets : \E d \in {PyStr(n) : n \in Databases} \cup {PyNone} :
          NewTableListCursor(o, d)
    \/ \E o \in Offsets : \E q \in PagedQueries : NewQueryResultCursor(o, q)
    \/ \E o \in Offsets : \E h \in GivenHashes : NewQueryResultCursorOfHash(o, h)
    \/ Encode
    \/ \E t \in ClientTokens : ClientSends(t)
    \/ DecodeTableList
    \/ DecodeQueryResult
    \/ \E on \in {"cursor", "decoded"} : \E d \in Databases : ValidateParams(on, d)
    \/ \E on \in {"cursor", "decoded"} : \E q \in PagedQueries : ValidateQuery(on, q)

Spec == Init /\ [][Next]_vars

(***************************************************************************)
(* hash_query on its own: two calls, on any two queries.                   *)
(***************************************************************************)

\* Every text of at most n characters of a space, a letter and a newline.
RECURSIVE TextsUpTo(_)
TextsUpTo(n) ==
    IF n = 0 THEN {<<>>}
    ELSE TextsUpTo(n - 1) \cup {Append(x, c) : x \in TextsUpTo(n - 1), c \in {32, 97, 10}}

HashedQueries == PagedQueries \cup {U("\n\t "), U("\t SELECT 1")} \cup TextsUpTo(MaxQueryLen)

HashInit ==
    /\ cursor = NoCursor /\ mintedFor = NoScope /\ token = NoToken
    /\ decoded = NotDecoded /\ verdict = NoVerdict /\ rewritten = NoRewrite
    /\ prevHash \in {[hashed |-> FALSE, query |-> q, digest |-> <<>>] : q \in HashedQueries}
    /\ lastHash \in {[hashed |-> FALSE, query |-> q, digest |-> <<>>] : q \in HashedQueries}

\* hash_query(q1)
HashQueryFirst ==
    /\ ~prevHash.hashed
    /\ prevHash' = [prevHash EXCEPT !.hashed = TRUE, !.digest = hash_query(prevHash.query)]
    /\ UNCHANGED <<cursor, mintedFor, token, decoded, verdict, lastHash, rewritten>>

\* hash_query(q2)
HashQuerySecond ==
    /\ prevHash.hashed /\ ~lastHash.hashed
    /\ lastHash' = [lastHash EXCEPT !.hashed = TRUE, !.digest = hash_query(lastHash.query)]
    /\ UNCHANGED <<cursor, mintedFor, token, decoded, verdict, prevHash, rewritten>>

HashNext == HashQueryFirst \/ HashQuerySecond

HashSpec == HashInit /\ [][HashNext]_vars

(***************************************************************************)
(* rewrite on its own: one call, on any query, limit and offset.           *)
(***************************************************************************)
MaxSqlParts == 2

\* The queries of the rewriter's tests.
TestQueries ==
    {U("SELECT * FROM users ORDER BY id"),
     U("SELECT * FROM users LIMIT 100"),
     U("SELECT * FROM users OFFSET 50"),
     U("SELECT * FROM my_limit_table WHERE id > 10"),
     U("SELECT offset_value, name FROM settings"),
     U("SELECT 'Check the LIMIT' as message FROM logs"),
     U("\n  SELECT t1.offset_value, t2.limit_config\n  FROM offset_logs t1\n  JOIN limit_settings t2 ON t1.id = t2.id\n  WHERE t1.status = 'active'\n"),
     U("SELECT * FROM table -- TODO: add LIMIT later"),
     U("SELECT * FROM users limit 100"),
     U("SELECT * FROM users LiMiT 100"),
     U("\n  SELECT id, name, created_at\n  FROM users\n  WHERE status = 'active'\n  ORDER BY created_at DESC\n  LIMIT 1000\n"),
     U("\n  SELECT * FROM orders\n  WHERE user_id IN (SELECT id FROM users LIMIT 100)\n"),
     U(""),
     U("SELECT * FROM users;"),
     U("SELECT * FROM users ORDER BY id LIMIT 100 OFFSET 50"),
     U("SELECT ") \o Backtick \o U("limit_column") \o Backtick \o U(" FROM ")
         \o Backtick \o U("offset_table") \o Backtick,
     U("SELECT * FROM table")}

\* Pieces of SQL text that queries are put together from.
SqlPieces ==
    {U("SELECT * FROM t"), U(" LIMIT 5"), U(" offset 2"), U(" my_limit_table"),
     U(" WHERE x IN (SELECT id FROM u LiMiT 1)"), U(" -- add LIMIT later"),
     U(" /* OFFSET */"), U(" 'Check the LIMIT'"), U(" [offset]"),
     U(" ") \o Backtick \o U("limit") \o Backtick, U(";"), U(" "), U("'")}

\* Every text of at most n pieces.
RECURSIVE PieceTexts(_)
PieceTexts(n) ==
    IF n = 0 THEN {<<>>}
    ELSE PieceTexts(n - 1) \cup {x \o p : x \in PieceTexts(n - 1), p \in SqlPieces}

\* Queries that end in a terminator, in two, or in one next to a space, and
\* queries with an unterminated comment or quoted identifier.
EdgeQueries ==
    {U("SELECT * FROM users;;"), U("SELECT * FROM users ;"), U("SELECT * FROM users; "),
     U("SELECT * FROM users LIMIT 5;"), U("\nSELECT 1 /* LIMIT"),
     U("SELECT [limit FROM t")}

RewriteQueries == TestQueries \cup EdgeQueries \cup PieceTexts(MaxSqlParts)

\* limit > 0 and offset >= 0, as the tests pass them.
Pages == {<<10, 0>>, <<10, 20>>, <<100, 50>>, <<1, 999>>, <<10000, 0>>}

RewriteInit ==
    /\ cursor = NoCursor /\ mintedFor = NoScope /\ token = NoToken
    /\ decoded = NotDecoded /\ verdict = NoVerdict
    /\ lastHash = NoHash /\ prevHash = NoHash
    /\ rewritten \in {[done |-> FALSE, query |-> q, limit |-> p[1], offset |-> p[2],
                       result |-> Raise("")] : q \in RewriteQueries, p \in Pages}

\* rewrite(query, limit, offset)
Rewrite ==
    /\ ~rewritten.done
    /\ rewritten' = [rewritten EXCEPT !.done = TRUE,
                        !.result = rewrite(rewritten.query, rewritten.limit, rewritten.offset)]
    /\ UNCHANGED <<cursor, mintedFor, token, decoded, verdict, lastHash, prevHash>>

RewriteNext == Rewrite

RewriteSpec == RewriteInit /\ [][RewriteNext]_vars

(***************************************************************************)
(* Properties                                                              *)
(***************************************************************************)

\* The discriminating field of a cursor.
Discriminator(c) == IF c.cls = "TableListCursor" THEN c.database ELSE c.query_hash

\* A valid cursor: a non-negative integer offset and a string discriminator.
ValidCursor(c) ==
    /\ c.cls \in {"TableListCursor", "QueryResultCursor"}
    /\ c.offset.t = "int" /\ c.offset.i >= 0
    /\ Discriminator(c).t = "str"

\* The token held is encode() of the cursor held, and decode of the cursor's
\* own class has run on it.
DecodedOwnToken ==
    /\ token.held /\ token.from = "encode"
    /\ decoded.cls = cursor.cls

\* C1: decoding the token encode() made of a valid cursor, with the decode of
\* the same variant, succeeds and returns a cursor of that variant with the
\* same offset and the same database / query_hash.
RoundTrip ==
    (DecodedOwnToken /\ ValidCursor(cursor)) =>
        /\ decoded.result.ok
        /\ decoded.result.val.cls = cursor.cls
        /\ decoded.result.val.offset = cursor.offset
        /\ Discriminator(decoded.result.val) = Discriminator(cursor)

\* C1 happens: a table-list cursor of offset 0 and the empty database, and a
\* query cursor of a later page, have each gone through encode and decode.
RoundTripOfDefaults ==
    /\ DecodedOwnToken
    /\ cursor = TableListCursor(PyInt(0), PyStr(<<>>))
    /\ decoded.result.ok

\* c.database != d, as Python compares a field value with a str.
DatabaseDiffers(c, d) == ~(c.database.t = "str" /\ c.database.s = d)

\* validate_params has run on a table-list cursor.
ValidatedParams ==
    /\ verdict.on # "none"
    /\ Subject(verdict.on).cls = "TableListCursor"

\* C2: validate_params(d) on a table-list cursor, constructed or decoded from
\* any token, raises exactly when the cursor's database is not d and returns
\* None otherwise; a cursor minted for database A, encoded and decoded, is
\* rejected against every other database.
ScopeBinding ==
    ValidatedParams =>
        /\ verdict.raised = (IF DatabaseDiffers(Subject(verdict.on), verdict.param)
                             THEN "ValueError" ELSE "None")
        /\ (/\ verdict.on = "decoded" /\ token.from = "encode"
            /\ mintedFor.kind = "database" /\ cursor.database.t = "str"
            /\ mintedFor.text # verdict.param) => verdict.raised = "ValueError"

\* C2 happens: a cursor minted for one database came back through encode and
\* decode and was rejected for another database.
ReplayedOnOtherDatabase ==
    /\ ValidatedParams
    /\ verdict.on = "decoded" /\ token.from = "encode"
    /\ mintedFor.kind = "database" /\ mintedFor.text = U("test")
    /\ verdict.param = U("prod")
    /\ verdict.raised = "ValueError"

\* validate_query has run on the decoded token of a cursor minted for a query.
ValidatedMintedQuery ==
    /\ verdict.on = "decoded" /\ token.from = "encode"
    /\ mintedFor.kind = "query"
    /\ decoded.cls = "QueryResultCursor"

\* C3: a query cursor minted with hash_query(Q1), of any offset, encoded and
\* decoded, fails validate_query(Q2) when hash_query(Q2) differs from
\* hash_query(Q1) and passes it when the two hashes are equal.
QueryBinding ==
    ValidatedMintedQuery =>
        verdict.raised = (IF hash_query(verdict.param) # hash_query(mintedFor.text)
                          THEN "ValueError" ELSE "None")

\* C3 happens: on a later page the same query, padded differently, validates.
SameQueryOnLaterPage ==
    /\ ValidatedMintedQuery
    /\ cursor.offset.i > 0
    /\ verdict.param # mintedFor.text
    /\ verdict.raised = "None"

\* The text with its leading and trailing whitespace removed: the part from
\* the first to the last character that is not whitespace.
Trimmed(q) ==
    LET inner == {n \in DOMAIN q : ~IsPySpace(q[n])}
    IN IF inner = {} THEN <<>>
       ELSE SubSeq(q, CHOOSE n \in inner : \A m \in 1..(n - 1) : IsPySpace(q[m]),
                      CHOOSE n \in inner : \A m \in (n + 1)..Len(q) : IsPySpace(q[m]))

\* Both calls of hash_query have returned.
BothHashed == prevHash.hashed /\ lastHash.hashed

\* C4: two queries hash alike exactly when they are the same text once the
\* leading and trailing whitespace is removed, and a digest is 64 lowercase
\* hexadecimal characters.
HashOfTrimmedText ==
    BothHashed =>
        /\ (prevHash.digest = lastHash.digest)
              <=> (Trimmed(prevHash.query) = Trimmed(lastHash.query))
        /\ Len(lastHash.digest) = 64
        /\ \A n \in DOMAIN lastHash.digest :
              \E k \in DOMAIN HexChars : HexChars[k] = lastHash.digest[n]

\* C4 happens: a query and the same query padded with spaces and a newline
\* were hashed, to one digest.
PaddedQueryHashedAlike ==
    /\ BothHashed
    /\ prevHash.query = U("SELECT * FROM users")
    /\ lastHash.query = U("  SELECT * FROM users \n")
    /\ prevHash.digest = lastHash.digest

\* A character of the URL-safe base64 alphabet.
IsUrlsafeChar(c) == IsLetter(c) \/ IsDigit(c) \/ c = 45 \/ c = 95

\* Valid base64 over the URL-safe alphabet: whole quads of alphabet
\* characters, the last one padded with at most two '='; not the empty text.
ValidUrlsafeB64(t) ==
    /\ Len(t) > 0 /\ Len(t) % 4 = 0
    /\ \E pads \in 0..2 :
          \A n \in DOMAIN t :
              IF n > Len(t) - pads THEN t[n] = B64Pad ELSE IsUrlsafeChar(t[n])

\* What the token carries, as far as it can be read: the JSON value.
SentJson(t) == TryLoads(TryDecode(TryB64decode(str_encode(t))))

\* A malformed token: not valid URL-safe base64, or not UTF-8 JSON text, or
\* JSON that is not an object.
MalformedToken(t) ==
    \/ ~ValidUrlsafeB64(t)
    \/ ~SentJson(t).ok
    \/ SentJson(t).val.t # "dict"

\* C5: decode of either variant fails, with the decode error and no cursor, on
\* every token that is not valid base64 over the URL-safe alphabet (the empty
\* token and tokens with characters outside the alphabet among them), whose
\* bytes are not UTF-8 JSON text, or whose JSON value is not an object.
MalformedTokenRejected ==
    (decoded.cls # "none" /\ MalformedToken(token.text)) =>
        (~decoded.result.ok /\ decoded.result.err = "ValueError")

\* C6: decode succeeds only on a JSON object of exactly the variant's two
\* fields, the offset a non-negative integer and the discriminator a string.
OnlyWellFormedCursorDecoded ==
    (decoded.cls # "none" /\ decoded.result.ok) =>
        /\ ValidCursor(decoded.result.val)
        /\ DictKeys(SentJson(token.text).val.xs)
              = {U("offset"), IF decoded.cls = "TableListCursor"
                              THEN U("database") ELSE U("query_hash")}

\* The JSON object of a cursor with its keys sorted and no whitespace.
CompactJson(c) ==
    IF c.cls = "TableListCursor"
    THEN U("{\"database\":") \o encode_basestring_ascii(c.database.s)
            \o U(",\"offset\":") \o IntToText(c.offset.i) \o U("}")
    ELSE U("{\"offset\":") \o IntToText(c.offset.i)
            \o U(",\"query_hash\":") \o encode_basestring_ascii(c.query_hash.s) \o U("}")

\* C7: encode() of a valid cursor is the URL-safe base64, padding kept, of the
\* cursor's JSON object with sorted keys and no extraneous whitespace; the
\* token of TableListCursor(offset=50, database="test") is
\* eyJkYXRhYmFzZSI6InRlc3QiLCJvZmZzZXQiOjUwfQ==.
CompactWireFormat ==
    (token.held /\ token.from = "encode" /\ ValidCursor(cursor)) =>
        /\ token.text = TokenOf(CompactJson(cursor))
        /\ cursor = TableListCursor(PyInt(50), PyStr(U("test")))
              => token.text = U("eyJkYXRhYmFzZSI6InRlc3QiLCJvZmZzZXQiOjUwfQ==")

\* The query rewrite worked on: trimmed, one trailing terminator stripped.
RewrittenQuery == Normalise(rewritten.query)

\* The texts the properties speak of.
LimitSpelling == U("LIMIT")
OffsetSpelling == U("OFFSET")
PaginatedSubquery == U("paginated_subquery")
NestedLimitQuery == U("SELECT * FROM t WHERE x IN (SELECT id FROM u LiMiT 1)")
CommentQuery == U("SELECT * FROM table -- TODO: add LIMIT later")
TerminatedExample == U("SELECT * FROM users;")
TerminatedExampleRewritten == U("SELECT * FROM users LIMIT 10 OFFSET 0")

\* p ends r.
EndsWith(r, p) == Len(r) >= Len(p) /\ SubSeq(r, Len(r) - Len(p) + 1, Len(r)) = p

\* LIMIT {limit} OFFSET {offset} of the call.
ClauseWords ==
    LimitSpelling \o <<32>> \o IntToText(rewritten.limit) \o <<32>>
        \o OffsetSpelling \o <<32>> \o IntToText(rewritten.offset)

\* The two shapes of a rewritten query.
Appended(q) == q \o <<32>> \o ClauseWords
WrappedTail(q) == q \o U(") AS paginated_subquery ") \o ClauseWords
Wrapped(q) == U("SELECT * FROM (") \o WrappedTail(q)

\* The tokens of the stream that are LIMIT or OFFSET keywords, in any case.
PaginationTokens(q, toks) ==
    {n \in DOMAIN toks :
        /\ toks[n].kind = "keyword"
        /\ UpperText(SubSeq(q, toks[n].lo, toks[n].hi)) \in {LimitSpelling, OffsetSpelling}}

\* rewrite has returned a statement.
Rewritten == rewritten.done /\ rewritten.result.ok

\* The result r is the one the rule gives the query q of token stream lexed.
DecidedByRule(q, lexed, r) ==
    IF lexed.ok
    THEN r = Ok(IF PaginationTokens(q, lexed.toks) # {} THEN Wrapped(q) ELSE Appended(q))
    ELSE ~r.ok

\* C8: rewrite returns the trimmed query wrapped as a subquery when its token
\* stream holds a LIMIT or OFFSET keyword, in any letter case and at any
\* depth, and the trimmed query with the clause appended otherwise; it
\* returns nothing else, and fails only on a query that cannot be tokenized.
DecisionRule ==
    rewritten.done =>
        DecidedByRule(RewrittenQuery, Tokenize(RewrittenQuery), rewritten.result)

\* C8 happens: a query whose only LIMIT is inside a parenthesised subquery,
\* in mixed case, was wrapped.
NestedLimitWrapped ==
    /\ Rewritten
    /\ rewritten.query = NestedLimitQuery
    /\ rewritten.result.val = Wrapped(NestedLimitQuery)

\* Where the text limit or offset occurs in the upper-cased query.
Occurrences(up) ==
    {i \in DOMAIN up : HasAt(up, i, LimitSpelling) \/ HasAt(up, i, OffsetSpelling)}

\* The kind of the token that covers position i.
KindAt(toks, i) ==
    (CHOOSE t \in {toks[n] : n \in DOMAIN toks} : t.lo <= i /\ i <= t.hi).kind

\* There are occurrences, and each is part of an identifier, or inside a
\* string literal, a comment or a quoted identifier.
OnlyBenign(toks, occurrences) ==
    /\ occurrences # {}
    /\ \A i \in occurrences :
          KindAt(toks, i) \in {"identifier", "string-literal", "comment", "quoted-identifier"}

\* The result r is the query q with the clause appended, and holds no
\* paginated_subquery that the query did not hold.
AppendedUnwrapped(q, r) ==
    /\ r = Ok(Appended(q))
    /\ Contains(r.val, PaginatedSubquery) => Contains(q, PaginatedSubquery)

NoFalsePositiveOn(q, lexed, r) ==
    (lexed.ok /\ OnlyBenign(lexed.toks, Occurrences(UpperText(q)))) => AppendedUnwrapped(q, r)

\* C9: a query in which limit and offset occur only as part of an identifier,
\* in a string literal, in a comment or in a quoted identifier gets the
\* clause appended, and the output holds no paginated_subquery.
NoFalsePositive ==
    rewritten.done =>
        NoFalsePositiveOn(RewrittenQuery, Tokenize(RewrittenQuery), rewritten.result)

\* C9 happens: the query with LIMIT in a trailing comment was not wrapped.
CommentNotWrapped ==
    /\ Rewritten
    /\ rewritten.query = CommentQuery
    /\ ~Contains(rewritten.result.val, PaginatedSubquery)

\* The text ends in a statement terminator.
EndsInTerminator(t) == t # <<>> /\ t[Len(t)] = 59

\* The statement has a terminator right before the appended clause, or right
\* before the parenthesis that closes the subquery.
TerminatorKept(r) == EndsWith(r, Appended(<<59>>)) \/ EndsWith(r, WrappedTail(<<59>>))

\* The trimmed query without its last character if that is a terminator.
WithoutLast(t) == IF EndsInTerminator(t) THEN SubSeq(t, 1, Len(t) - 1) ELSE t
WithoutTerminator(q) == WithoutLast(Trimmed(q))

\* The two examples of C10: the terminated query, and the empty input.
NormalisationExamples ==
    /\ (/\ rewritten.query = TerminatedExample
        /\ rewritten.limit = 10 /\ rewritten.offset = 0)
          => rewritten.result = Ok(TerminatedExampleRewritten)
    /\ Trimmed(rewritten.query) = <<>>
          => rewritten.result.ok /\ Contains(rewritten.result.val, ClauseWords)

\* rewrite worked on body, and left no terminator at its end; a body that
\* cannot be tokenized is set aside.
WorkedOn(body, r) ==
    Tokenize(body).ok =>
        /\ r \in {Ok(Appended(body)), Ok(Wrapped(body))}
        /\ ~TerminatorKept(r.val)

BalancedParens(x, toks) ==
    /\ \A n \in 1..(Len(toks) + 1) : Depth(x, toks, n) >= 0
    /\ Depth(x, toks, Len(toks) + 1) = 0

\* An input rewrite is meant for: it can be tokenized and its parentheses
\* are balanced.
WellFormedQuery(q) == Tokenize(q).ok /\ BalancedParens(q, Tokenize(q).toks)

\* Positions lo..hi of the text x are a keyword token of the stream spelt
\* word, outside every parenthesis.
LiveKeyword(x, toks, lo, word) ==
    \E n \in DOMAIN toks :
        /\ toks[n] = Token("keyword", lo, lo + Len(word) - 1)
        /\ SubSeq(x, lo, lo + Len(word) - 1) = word
        /\ Depth(x, toks, n) = 0

\* The statement r, tokenized again, has the LIMIT and the OFFSET of its
\* final clause as keywords outside every comment, literal and parenthesis.
FinalClauseLive(r, lexed) ==
    /\ lexed.ok
    /\ EndsWith(r, ClauseWords)
    /\ LiveKeyword(r, lexed.toks, Len(r) - Len(ClauseWords) + 1, LimitSpelling)
    /\ LiveKeyword(r, lexed.toks,
                   Len(r) - Len(OffsetSpelling) - Len(IntToText(rewritten.offset)),
                   OffsetSpelling)

\* C11: for a well-formed query, the statement rewrite returns ends in a
\* LIMIT {limit} OFFSET {offset} that is live: tokenized again, the appended
\* LIMIT and OFFSET are keywords outside any comment, string literal or
\* parenthesis, on the append path and on the wrap path, also when the
\* query ends in a line comment or already limits its result.
FinalClauseIsLive ==
    (rewritten.done /\ WellFormedQuery(RewrittenQuery)) =>
        /\ rewritten.result.ok
        /\ FinalClauseLive(rewritten.result.val, Tokenize(rewritten.result.val))

\* The token held is encode() of the valid cursor held, and the decode of the
\* other variant has run on it.
DecodedByOtherVariant ==
    /\ token.held /\ token.from = "encode"
    /\ ValidCursor(cursor)
    /\ decoded.cls \in {"TableListCursor", "QueryResultCursor"}
    /\ decoded.cls # cursor.cls

\* The discriminator key of each variant.
DiscriminatorKey(cls) == IF cls = "TableListCursor" THEN U("database") ELSE U("query_hash")

\* The token t is the encoding of a JSON object that has the key.
EmitsKey(t, key) ==
    LET data == SentJson(t)
    IN data.ok /\ data.val.t = "dict" /\ key \in DictKeys(data.val.xs)

\* C12: a token encode() made of a valid cursor of one variant (any offset,
\* any string database / query_hash, the empty string included) carries the
\* discriminator key of that variant; the decode of the other variant fails on
\* it with a ValueError made from the TypeError of the unknown key; and the
\* token is not decodable as both variants.
VariantSeparation ==
    /\ DecodedByOtherVariant =>
           /\ ~decoded.result.ok
           /\ decoded.result.err = "ValueError"
           /\ decoded.result.cause = "TypeError"
    /\ (token.held /\ token.from = "encode" /\ ValidCursor(cursor)) =>
           /\ EmitsKey(token.text, DiscriminatorKey(cursor.cls))
           /\ ~(TableListCursor_decode(token.text).ok
                /\ QueryResultCursor_decode(token.text).ok)

\* C12 happens: the token of a query cursor with the empty query_hash has been
\* given to TableListCursor.decode, which raised.
DefaultsDecodedByOtherVariant ==
    /\ DecodedByOtherVariant
    /\ cursor.cls = "QueryResultCursor"
    /\ cursor.query_hash = PyStr(<<>>)
    /\ ~decoded.result.ok
====
